---- MODULE Spec2Model ----
(***************************************************************************)
(* A model of src/mapper.py: the treesort-to-tree mapper.                  *)
(*                                                                         *)
(* Labels are sequences of one-character strings, so that                  *)
(* normalize_taxon_label and the NODE_%07d formatting are computed         *)
(* character by character.  The empty sequence stands for None and for     *)
(* the empty string alike (both are falsy in every test the code makes).   *)
(*                                                                         *)
(* A tree is a parent vector over the nodes 1..n: parent[1] = 0 (the seed  *)
(* node) and parent[i] < i; the children of a node are ordered by index.   *)
(* The normalized leaf taxa of a target tree are pairwise distinct: one    *)
(* leaf per taxon.                                                         *)
(***************************************************************************)
EXTENDS Integers, Sequences, FiniteSets, TLC

\* ------------------------------------------------------------------ bounds
MaxNodes == 3
MaxAnn == 2
MaxLabelLen == 3

\* CONFIDENCE_THRESHOLD = 0.95, in hundredths
CONFIDENCE_THRESHOLD == 95

VARIABLES
    parent,                 \* target tree: parent vector
    taxon,                  \* target tree: node -> taxon label (<<>> on internal nodes)
    label,                  \* target tree: node -> node.label (<<>> when absent)
    node_counter,           \* get_labeled_canonical_tree: node_counter
    lpos,                   \* get_labeled_canonical_tree: position in the postorder iteration
    assigned,               \* the sequence number given to each node (-1: none)
    visited,                \* internal nodes in the order the labeler visited them
    target_leaf_map,        \* main: label -> leaf-set
    target_leaf_map_inv,    \* main: leaf-set -> label
    idx,                    \* main: number of summary_data items processed
    mapped_summary_data,    \* main: target label -> data
    high_confidence_count,  \* main
    mapped_count,           \* main
    last,                   \* main: source_leaf_set / target_node_label of the last item
    arrivals,               \* every <<target label, data>> that resolved, in arrival order
    pc,                     \* position in main
    wrote_tree,             \* target_tree.write was called
    wrote_node_data,        \* json.dump(augur_node_data) was called
    nl_in,                  \* normalize_taxon_label: the raw label
    nl_out,                 \* normalize_taxon_label: results of successive applications
    nl_pc

vars == <<parent, taxon, label, node_counter, lpos, assigned, visited,
          target_leaf_map, target_leaf_map_inv, idx, mapped_summary_data,
          high_confidence_count, mapped_count, last, arrivals, pc,
          wrote_tree, wrote_node_data, nl_in, nl_out, nl_pc>>

treeVars == <<parent, taxon, label, node_counter, lpos, assigned, visited>>
indexVars == <<target_leaf_map, target_leaf_map_inv>>
loopVars == <<idx, mapped_summary_data, high_confidence_count, mapped_count, last, arrivals>>
outVars == <<wrote_tree, wrote_node_data>>
nlVars == <<nl_in, nl_out, nl_pc>>

None == <<>>

\* ------------------------------------------------- normalize_taxon_label
WhitespaceChars == {" "}
QuoteChars == {"'", "\""}
Pipe == "|"

RECURSIVE LStrip(_, _)
LStrip(s, chars) ==
    IF s # <<>> /\ Head(s) \in chars THEN LStrip(Tail(s), chars) ELSE s

RECURSIVE RStrip(_, _)
RStrip(s, chars) ==
    IF s # <<>> /\ s[Len(s)] \in chars
    THEN RStrip(SubSeq(s, 1, Len(s) - 1), chars)
    ELSE s

\* str.strip(chars)
Strip(s, chars) == RStrip(LStrip(s, chars), chars)

\* str.split('|'): always at least one part
RECURSIVE Split(_, _)
Split(s, cur) ==
    IF s = <<>> THEN <<cur>>
    ELSE IF Head(s) = Pipe THEN <<cur>> \o Split(Tail(s), <<>>)
    ELSE Split(Tail(s), Append(cur, Head(s)))

normalize_taxon_label(lbl) ==
    IF lbl = <<>> THEN lbl
    ELSE LET clean_label == Strip(Strip(lbl, WhitespaceChars), QuoteChars)
             parts == Split(clean_label, <<>>)
         IN  IF Len(parts) >= 2
             THEN parts[1] \o <<Pipe>> \o parts[2]
             ELSE clean_label

\* --------------------------------------------------------- tree traversal
Nodes == 1..Len(parent)
Children(n) == {c \in Nodes : parent[c] = n}
IsLeaf(n) == Children(n) = {}
IsInternal(n) == Children(n) # {}

RECURSIVE SortedSeq(_)
SortedSeq(S) ==
    IF S = {} THEN <<>>
    ELSE LET m == CHOOSE x \in S : \A y \in S : x <= y
         IN  <<m>> \o SortedSeq(S \ {m})

child_nodes(n) == SortedSeq(Children(n))

\* preorder_node_iter, as dendropy runs it: a stack of nodes still to visit
RECURSIVE PreorderList(_)
PreorderList(stack) ==
    IF stack = <<>> THEN <<>>
    ELSE <<Head(stack)>> \o PreorderList(child_nodes(Head(stack)) \o Tail(stack))

preorder_node_iter == PreorderList(<<1>>)

RECURSIVE PostorderList(_)
PostorderList(forest) ==
    IF forest = <<>> THEN <<>>
    ELSE PostorderList(child_nodes(Head(forest))) \o <<Head(forest)>>
         \o PostorderList(Tail(forest))

preorder_internal_node_iter == SelectSeq(PreorderList(<<1>>), IsInternal)

postorder_internal_node_iter == SelectSeq(PostorderList(<<1>>), IsInternal)

RECURSIVE IsProperAncestor(_, _)
IsProperAncestor(a, n) ==
    IF parent[n] = 0 THEN FALSE
    ELSE parent[n] = a \/ IsProperAncestor(a, parent[n])

\* node.leaf_nodes(), as a set: the leaves at or below the node
leaf_nodes(n) == {l \in Nodes : IsLeaf(l) /\ (l = n \/ IsProperAncestor(n, l))}

\* frozenset(leaf.taxon.label for leaf in node.leaf_nodes() if leaf.taxon and leaf.taxon.label)
LeafSet(n) == {taxon[l] : l \in {x \in leaf_nodes(n) : taxon[x] # <<>>}}

\* node.label or (node.taxon and node.taxon.label)
NodeLabelOrTaxon(n) == IF label[n] # <<>> THEN label[n] ELSE taxon[n]

\* ------------------------------------------------------------ the inputs
TaxonNames == <<"A", "B", "C", "D", "E", "F", "G", "H">>
Styles == {"plain", "dated"}

\* the text of a leaf in the target newick
RawLabel(style, j) ==
    IF style = "plain" THEN <<TaxonNames[j]>>
    ELSE <<TaxonNames[j], "|", "1", "|", "1">>

\* a taxon of the source tree that the target tree does not hold
AbsentTaxon == <<"Z">>

ShapesOf(n) ==
    {p \in [1..n -> 0..(n - 1)] : p[1] = 0 /\ \A i \in 2..n : p[i] \in 1..(i - 1)}

\* ((A,B)NODE_0,(C,D)NODE_1)ROOT;
ScenarioShape == <<0, 1, 1, 2, 2, 3, 3>>

\* (((A,B),C),D);
LadderShape == <<0, 1, 1, 2, 2, 4, 4>>

TargetShapes ==
    UNION {ShapesOf(n) : n \in 1..MaxNodes} \cup {ScenarioShape, LadderShape}

\* how the leaves of a target newick are written
StylesOf(shape) ==
    IF shape = ScenarioShape THEN {"plain"}
    ELSE IF shape = LadderShape THEN {"dated"}
    ELSE Styles

\* the internal nodes the target newick labels itself: all three in the
\* scenario tree, any of them elsewhere
PreLabelled(shape) ==
    LET internal == {n \in 1..Len(shape) : \E c \in 1..Len(shape) : shape[c] = n}
    IN  IF shape = ScenarioShape THEN {internal} ELSE SUBSET internal

DigitChar == <<"0", "1", "2", "3", "4", "5", "6", "7", "8", "9">>

RECURSIVE Digits(_)
Digits(k) ==
    IF k < 10 THEN <<DigitChar[k + 1]>>
    ELSE Digits(k \div 10) \o <<DigitChar[(k % 10) + 1]>>

\* a label the target newick already gives an internal node
PreName(n) ==
    IF n = 1 THEN <<"R", "O", "O", "T">>
    ELSE <<"N", "O", "D", "E", "_">> \o Digits(n - 2)

\* the position of a leaf among the leaves, in the order of the newick text
LeafIndex(n) ==
    LET leaves == SelectSeq(preorder_node_iter, IsLeaf)
    IN  CHOOSE j \in 1..Len(leaves) : leaves[j] = n

EmptyMap == [x \in {} |-> None]

NoLast == [S |-> {}, label |-> None, node |-> 0, via |-> "skip"]

Confidences == {94, 95}

InitNormalizeIdle ==
    /\ nl_in = <<>>
    /\ nl_out = <<>>
    /\ nl_pc = "idle"

InitMainRest ==
    /\ node_counter = 0
    /\ lpos = 1
    /\ assigned = [n \in Nodes |-> -1]
    /\ visited = <<>>
    /\ target_leaf_map = EmptyMap
    /\ target_leaf_map_inv = EmptyMap
    /\ idx = 0
    /\ mapped_summary_data = EmptyMap
    /\ high_confidence_count = 0
    /\ mapped_count = 0
    /\ last = NoLast
    /\ arrivals = <<>>
    /\ wrote_tree = FALSE
    /\ wrote_node_data = FALSE

Init ==
    /\ parent \in TargetShapes
    /\ \E style \in StylesOf(parent) :
         taxon = [n \in Nodes |-> IF IsLeaf(n) THEN RawLabel(style, LeafIndex(n)) ELSE None]
    /\ \E pre \in PreLabelled(parent) :
         label = [n \in Nodes |-> IF n \in pre THEN PreName(n) ELSE None]
    /\ InitMainRest
    /\ pc = "parse"
    /\ InitNormalizeIdle

\* ------------------------------------------- get_labeled_canonical_tree
\* f"NODE_{node_counter:07d}"
RECURSIVE ZeroPad(_, _)
ZeroPad(s, width) == IF Len(s) >= width THEN s ELSE ZeroPad(<<"0">> \o s, width)

SyntheticLabel(k) == <<"N", "O", "D", "E", "_">> \o ZeroPad(Digits(k), 7)

\* normalize_tree_taxa
normalize_tree_taxa ==
    [n \in Nodes |-> IF IsLeaf(n) /\ taxon[n] # <<>>
                     THEN normalize_taxon_label(taxon[n]) ELSE taxon[n]]

\* Tree.get + normalize_tree_taxa + node_counter = 0
ParseTarget ==
    /\ pc = "parse"
    /\ taxon' = normalize_tree_taxa
    /\ node_counter' = 0
    /\ lpos' = 1
    /\ pc' = "label"
    /\ UNCHANGED <<parent, label, assigned, visited>>
    /\ UNCHANGED <<indexVars, loopVars, outVars, nlVars>>

\* one iteration of the labeling loop
LabelStep ==
    /\ pc = "label"
    /\ lpos <= Len(postorder_internal_node_iter)
    /\ LET node == postorder_internal_node_iter[lpos]
       IN  /\ IF label[node] = <<>>
              THEN /\ label' = [label EXCEPT ![node] = SyntheticLabel(node_counter)]
                   /\ assigned' = [assigned EXCEPT ![node] = node_counter]
                   /\ node_counter' = node_counter + 1
              ELSE UNCHANGED <<label, assigned, node_counter>>
           /\ visited' = Append(visited, node)
    /\ lpos' = lpos + 1
    /\ UNCHANGED <<parent, taxon, pc>>
    /\ UNCHANGED <<indexVars, loopVars, outVars, nlVars>>

\* ------------------------------------------------ build_target_leaf_map
RECURSIVE BuildLeafMaps(_, _, _)
BuildLeafMaps(order, fwd, inv) ==
    IF order = <<>> THEN [fwd |-> fwd, inv |-> inv]
    ELSE LET node == Head(order)
             node_label == NodeLabelOrTaxon(node)
         IN  IF node_label # <<>>
             THEN BuildLeafMaps(Tail(order),
                                (node_label :> LeafSet(node)) @@ fwd,
                                (LeafSet(node) :> node_label) @@ inv)
             ELSE BuildLeafMaps(Tail(order), fwd, inv)

\* faulty variant: an entry of the inverse map is never overwritten (setdefault)
RECURSIVE BuildLeafMapsFirstWins(_, _, _)
BuildLeafMapsFirstWins(order, fwd, inv) ==
    IF order = <<>> THEN [fwd |-> fwd, inv |-> inv]
    ELSE LET node == Head(order)
             node_label == NodeLabelOrTaxon(node)
         IN  IF node_label # <<>>
             THEN BuildLeafMapsFirstWins(Tail(order),
                                         (node_label :> LeafSet(node)) @@ fwd,
                                         inv @@ (LeafSet(node) :> node_label))
             ELSE BuildLeafMapsFirstWins(Tail(order), fwd, inv)

build_target_leaf_map_first_wins ==
    BuildLeafMapsFirstWins(preorder_node_iter, EmptyMap, EmptyMap)

\* faulty variant: only internal nodes are indexed (preorder_internal_node_iter)
build_target_leaf_map_internal_only ==
    BuildLeafMaps(preorder_internal_node_iter, EmptyMap, EmptyMap)

build_target_leaf_map == BuildLeafMaps(preorder_node_iter, EmptyMap, EmptyMap)

\* the labeling loop is over: return tree, then build the target leaf maps
BuildTargetLeafMap ==
    /\ pc = "label"
    /\ lpos > Len(postorder_internal_node_iter)
    /\ target_leaf_map' = build_target_leaf_map.fwd
    /\ target_leaf_map_inv' = build_target_leaf_map.inv
    /\ pc' = "map"
    /\ UNCHANGED <<treeVars, loopVars, outVars, nlVars>>

\* ------------------------------------------ map_node_with_ancestral_walk
find_node_with_taxon_label(lbl) ==
    LET hits == {n \in Nodes : lbl # <<>> /\ taxon[n] = lbl}
    IN  IF hits = {} THEN 0 ELSE CHOOSE n \in hits : \A m \in hits : n <= m

\* faulty variant: issuperset for issubset
RECURSIVE WalkUpSuperset(_, _)
WalkUpSuperset(source_leaf_set, current_node) ==
    IF current_node = 0 THEN 0
    ELSE IF LeafSet(current_node) \subseteq source_leaf_set THEN current_node
    ELSE WalkUpSuperset(source_leaf_set, parent[current_node])

\* faulty variant: a shared leaf is enough (not isdisjoint)
RECURSIVE WalkUpOverlap(_, _)
WalkUpOverlap(source_leaf_set, current_node) ==
    IF current_node = 0 THEN 0
    ELSE IF source_leaf_set \cap LeafSet(current_node) # {} THEN current_node
    ELSE WalkUpOverlap(source_leaf_set, parent[current_node])

\* faulty variant: the subset test is left out, the parent of the leaf is returned
WalkUpParent(source_leaf_set, current_node) == current_node

\* faulty variant: the walk does not stop at the first match and keeps the last one
RECURSIVE WalkUpOutermost(_, _)
WalkUpOutermost(source_leaf_set, current_node) ==
    IF current_node = 0 THEN 0
    ELSE LET above == WalkUpOutermost(source_leaf_set, parent[current_node])
         IN  IF above # 0 THEN above
             ELSE IF source_leaf_set \subseteq LeafSet(current_node) THEN current_node
             ELSE 0

\* the while loop over current_node
RECURSIVE WalkUp(_, _)
WalkUp(source_leaf_set, current_node) ==
    IF current_node = 0 THEN 0
    ELSE IF source_leaf_set \subseteq LeafSet(current_node) THEN current_node
    ELSE WalkUp(source_leaf_set, parent[current_node])

NotFound == [label |-> None, node |-> 0, via |-> "none"]

\* random_leaf_label is the outcome of random.choice
map_node_with_ancestral_walk(source_leaf_set, random_leaf_label) ==
    IF source_leaf_set \in DOMAIN target_leaf_map_inv
    THEN [label |-> target_leaf_map_inv[source_leaf_set], node |-> 0, via |-> "exact"]
    ELSE IF source_leaf_set = {} THEN NotFound
    ELSE LET leaf_node == find_node_with_taxon_label(random_leaf_label)
         IN  IF leaf_node = 0 THEN NotFound
             ELSE LET found == WalkUp(source_leaf_set, parent[leaf_node])
                  IN  IF found = 0 THEN NotFound
                      ELSE [label |-> NodeLabelOrTaxon(found), node |-> found,
                            via |-> "walk"]

\* ------------------------------------------------------------------ main
\* the taxa a source leaf-set may hold
Universe == LeafSet(1) \cup {AbsentTaxon}

Data(id, reassorted, confidence) ==
    [id |-> id, reassorted |-> reassorted, confidence |-> confidence]

Eligible(data) == data.reassorted /\ data.confidence >= CONFIDENCE_THRESHOLD

\* an item that is not reassorted or is below the threshold
MapSkip ==
    /\ pc = "map"
    /\ idx < MaxAnn
    /\ \E reassorted \in BOOLEAN, confidence \in Confidences :
         /\ ~Eligible(Data(idx + 1, reassorted, confidence))
         /\ idx' = idx + 1
         /\ last' = NoLast
         /\ UNCHANGED <<mapped_summary_data, high_confidence_count, mapped_count, arrivals>>
    /\ UNCHANGED <<treeVars, indexVars, outVars, nlVars, pc>>

\* an eligible item whose label is not in source_leaf_map
MapMissing ==
    /\ pc = "map"
    /\ idx < MaxAnn
    /\ \E confidence \in Confidences :
         /\ Eligible(Data(idx + 1, TRUE, confidence))
         /\ idx' = idx + 1
         /\ high_confidence_count' = high_confidence_count + 1
         /\ last' = NoLast
         /\ UNCHANGED <<mapped_summary_data, mapped_count, arrivals>>
    /\ UNCHANGED <<treeVars, indexVars, outVars, nlVars, pc>>

\* random.choice(list(source_leaf_set)) is reached only past the direct match
\* and the empty-set test
RandomChoices(source_leaf_set) ==
    IF source_leaf_set \in DOMAIN target_leaf_map_inv \/ source_leaf_set = {}
    THEN {None}
    ELSE source_leaf_set

\* an eligible item whose label is in source_leaf_map
MapResolve ==
    /\ pc = "map"
    /\ idx < MaxAnn
    /\ \E confidence \in Confidences, source_leaf_set \in SUBSET Universe :
       \E random_leaf_label \in RandomChoices(source_leaf_set) :
       \E res \in {map_node_with_ancestral_walk(source_leaf_set, random_leaf_label)} :
         LET data == Data(idx + 1, TRUE, confidence)
         IN  /\ Eligible(data)
             /\ idx' = idx + 1
             /\ high_confidence_count' = high_confidence_count + 1
             /\ last' = [S |-> source_leaf_set, label |-> res.label,
                         node |-> res.node, via |-> res.via]
             /\ IF res.label # <<>>
                THEN /\ mapped_summary_data' = (res.label :> data) @@ mapped_summary_data
                     /\ mapped_count' = mapped_count + 1
                     /\ arrivals' = Append(arrivals, <<res.label, data>>)
                ELSE UNCHANGED <<mapped_summary_data, mapped_count, arrivals>>
    /\ UNCHANGED <<treeVars, indexVars, outVars, nlVars, pc>>

\* the loop is over: the SUMMARY block, with mapped_count/high_confidence_count
Summary ==
    /\ pc = "map"
    /\ pc' = IF high_confidence_count = 0 THEN "crashed" ELSE "export"
    /\ UNCHANGED <<treeVars, indexVars, loopVars, outVars, nlVars>>

\* target_tree.write, then create_augur_node_data + json.dump
Export ==
    /\ pc = "export"
    /\ wrote_tree' = TRUE
    /\ wrote_node_data' = TRUE
    /\ pc' = "done"
    /\ UNCHANGED <<treeVars, indexVars, loopVars, nlVars>>

Next ==
    \/ ParseTarget
    \/ LabelStep
    \/ BuildTargetLeafMap
    \/ MapSkip
    \/ MapMissing
    \/ MapResolve
    \/ Summary
    \/ Export

Spec == Init /\ [][Next]_vars

\* ------------------------------- normalize_taxon_label on its own inputs
Alphabet == {"a", " ", "'", "|"}

LabelsUpTo(n) == UNION {[1..k -> Alphabet] : k \in 0..n}

InitNormalize ==
    /\ parent = <<0>>
    /\ taxon = <<None>>
    /\ label = <<None>>
    /\ InitMainRest
    /\ pc = "idle"
    /\ nl_in \in LabelsUpTo(MaxLabelLen)
    /\ nl_out = <<>>
    /\ nl_pc = "call"

\* normalize_taxon_label applied to the label, then to its own result
NormalizeCall ==
    /\ nl_pc = "call"
    /\ nl_out' = Append(nl_out, normalize_taxon_label(
                     IF nl_out = <<>> THEN nl_in ELSE nl_out[Len(nl_out)]))
    /\ nl_pc' = IF Len(nl_out) >= 1 THEN "done" ELSE "call"
    /\ UNCHANGED <<nl_in, treeVars, indexVars, loopVars, outVars, pc>>

NextNormalize == NormalizeCall

SpecNormalize == InitNormalize /\ [][NextNormalize]_vars

\* ------------------------------------------------------------- the claims
Resolved == last.via # "skip"

NodesWithLeafSet(S) == {n \in Nodes : LeafSet(n) = S}

PreorderIndex(n) ==
    CHOOSE i \in 1..Len(preorder_node_iter) : preorder_node_iter[i] = n

\* the node of the set that preorder_node_iter visits last
LastInPreorder(ns) ==
    CHOOSE n \in ns : \A m \in ns : PreorderIndex(m) <= PreorderIndex(n)

PresentIn(S) == {b \in S : find_node_with_taxon_label(b) # 0}

\* C1, as stated: whenever the source leaf-set equals the leaf-set of a target
\* node n, resolution returns the label of n, whichever such n is taken.
C1_ExactMatchEveryNode ==
    Resolved =>
        \A n \in NodesWithLeafSet(last.S) : last.label = NodeLabelOrTaxon(n)

\* C1, amended: when the source leaf-set equals the leaf-set of some target
\* node, resolution is a direct match and returns the label of the node with
\* that leaf-set that the preorder traversal visits last; so it returns the
\* label of n whenever n is the only node with that leaf-set.
C1_ExactMatchLastVisited ==
    (Resolved /\ NodesWithLeafSet(last.S) # {}) =>
        /\ last.via = "exact"
        /\ last.label = NodeLabelOrTaxon(LastInPreorder(NodesWithLeafSet(last.S)))

C1_Witness ==
    /\ last.via = "exact"
    /\ Cardinality(NodesWithLeafSet(last.S)) >= 2
    /\ \E n \in NodesWithLeafSet(last.S) : last.label # NodeLabelOrTaxon(n)

\* the entries the report holds for a target label
ReportEntries(t) ==
    IF t \in DOMAIN mapped_summary_data THEN <<mapped_summary_data[t]>> ELSE <<>>

ArrivedAt(t) ==
    LET At(a) == a[1] = t
        hits == SelectSeq(arrivals, At)
    IN  [i \in 1..Len(hits) |-> hits[i][2]]

\* C2: the report record of every target node holds every annotation that
\* resolved to that node, in arrival order; none replaces another.
C2_AccumulateNoOverwrite ==
    \A i \in 1..Len(arrivals) :
        ReportEntries(arrivals[i][1]) = ArrivedAt(arrivals[i][1])

\* C3: with no exact match, the walk started from any member of the source
\* leaf-set that is a leaf of the target returns what the walk of the run
\* returned: the same label, or NotFound.
C3_LeafChoiceInvariant ==
    last.via \in {"walk", "none"} =>
        \A b \in PresentIn(last.S) :
            map_node_with_ancestral_walk(last.S, b).label = last.label

C3_Witness ==
    /\ last.via = "walk"
    /\ \E a, b \in PresentIn(last.S) :
         parent[find_node_with_taxon_label(a)] # parent[find_node_with_taxon_label(b)]

\* C4: a label returned by the ancestral walk is the label of a node whose
\* leaf-set contains the whole source leaf-set.
C4_WalkContains ==
    last.via = "walk" =>
        /\ last.node \in Nodes
        /\ last.label = NodeLabelOrTaxon(last.node)
        /\ last.S \subseteq LeafSet(last.node)

C4_Witness ==
    /\ last.via = "walk"
    /\ last.node # 1
    /\ Cardinality(last.S) >= 2

\* C5: an eligible item whose source leaf-set holds a taxon that is no leaf of
\* the target resolves to NotFound whichever member is chosen, leaves the
\* report as it was, and the loop goes on.
C5_AbsentTaxonNotFound ==
    [][(pc = "map" /\ idx' = idx + 1 /\ last'.via # "skip"
          /\ PresentIn(last'.S) # last'.S)
       => /\ last'.label = None
          /\ \A b \in last'.S : map_node_with_ancestral_walk(last'.S, b).label = None
          /\ mapped_summary_data' = mapped_summary_data
          /\ arrivals' = arrivals
          /\ pc' = "map"]_vars

C5_Witness ==
    /\ pc = "map"
    /\ last.via = "none"
    /\ AbsentTaxon \in last.S
    /\ PresentIn(last.S) # {}
    /\ arrivals # <<>>

\* C6: normalize_taxon_label applied to its own result returns that result.
C6_NormalizeIdempotent ==
    Len(nl_out) >= 2 => nl_out[2] = nl_out[1]

\* C7: with an empty report (nothing met the threshold, or nothing resolved)
\* the run does not fail and writes neither the labeled tree nor the node data.
C7_EmptyReportSkipsExport ==
    (pc \in {"crashed", "export", "done"} /\ DOMAIN mapped_summary_data = {}) =>
        /\ pc # "crashed"
        /\ ~wrote_tree
        /\ ~wrote_node_data

TaxonA == <<"A">>

IsScenarioTree ==
    /\ parent = ScenarioShape
    /\ \A n \in 1..3 : label[n] = PreName(n)
    /\ LeafSet(2) = {<<"A">>, <<"B">>}
    /\ LeafSet(3) = {<<"C">>, <<"D">>}

\* C8, as stated: in ((A,B)NODE_0,(C,D)NODE_1)ROOT the source leaf-set {A}
\* resolves to NODE_0.
C8_SingleLeafToNode0 ==
    (IsScenarioTree /\ Resolved /\ last.S = {TaxonA}) => last.label = PreName(2)

\* C8, amended: in ((A,B)NODE_0,(C,D)NODE_1)ROOT the source leaf-set {A}
\* resolves by direct match to the leaf A itself (label A), not to NODE_0.
C8_SingleLeafToLeaf ==
    (IsScenarioTree /\ Resolved /\ last.S = {TaxonA}) =>
        /\ last.via = "exact"
        /\ last.label = TaxonA

C8_Witness ==
    /\ IsScenarioTree
    /\ last.S = {TaxonA}
    /\ last.via = "exact"
    /\ TaxonA \in DOMAIN mapped_summary_data

\* C9: a node returned by the ancestral walk has a leaf-set of minimum size
\* among all target nodes whose leaf-set contains the source leaf-set.
C9_WalkMinimal ==
    last.via = "walk" =>
        \A m \in Nodes :
            last.S \subseteq LeafSet(m) =>
                Cardinality(LeafSet(last.node)) <= Cardinality(LeafSet(m))

C9_Witness ==
    /\ last.via = "walk"
    /\ \E m \in Nodes :
         /\ last.S \subseteq LeafSet(m)
         /\ Cardinality(LeafSet(last.node)) < Cardinality(LeafSet(m))

Synthetic == {n \in Nodes : assigned[n] >= 0}

C10_State ==
    /\ node_counter = Cardinality(Synthetic)
    /\ {assigned[n] : n \in Synthetic} = 0..(node_counter - 1)
    /\ \A n \in Synthetic :
         /\ IsInternal(n)
         /\ label[n] = SyntheticLabel(assigned[n])
    /\ \A i, j \in 1..Len(visited) :
         i < j => ~IsProperAncestor(visited[i], visited[j])
    /\ \A i \in 1..Len(visited), n \in Nodes :
         (IsInternal(n) /\ IsProperAncestor(visited[i], n)) =>
             \E j \in 1..(i - 1) : visited[j] = n
    /\ \A i \in 1..Len(visited) : label[visited[i]] # <<>>
    /\ \A n, m \in Synthetic :
         IsProperAncestor(m, n) => assigned[n] < assigned[m]

C10_Step ==
    /\ \A n \in Nodes :
         label[n] # <<>> => (label'[n] = label[n] /\ assigned'[n] = assigned[n])
    /\ LET fresh == {n \in Nodes : assigned[n] < 0 /\ assigned'[n] >= 0}
       IN  /\ Cardinality(fresh) <= 1
           /\ node_counter' = node_counter + Cardinality(fresh)
           /\ \A n \in fresh : assigned'[n] = node_counter /\ label[n] = <<>>

\* C10: the labeler visits internal nodes child before parent; a node without
\* a label gets NODE_<k> with k from a counter that starts at 0 and grows by
\* one per assignment; a labelled node keeps its label and takes no number;
\* of two numbered nodes, the descendant has the smaller number.
C10_BottomUpLabeling == [](C10_State) /\ [][C10_Step]_vars

C10_Witness ==
    /\ pc = "map"
    /\ \E n, m \in Synthetic : IsProperAncestor(m, n)
    /\ \E q \in Nodes : IsInternal(q) /\ q \notin Synthetic

====
